---- MODULE Spec2Model ----
(***************************************************************************)
(* Snake game of src/lib.rs: one live game instance (GAME), either the     *)
(* planar Game2D or the spatial Game3D, driven by a 100 ms timer           *)
(* (update then draw), by keydown events (change_dir) and by the exported  *)
(* restart() and toggle_mode().  Everything runs on the single browser     *)
(* event thread, so each handler is one atomic action.                     *)
(***************************************************************************)
EXTENDS Integers, Sequences, FiniteSets, TLC

\* ---------------------------------------------------------------- constants
WIDTH == 20
HEIGHT == 20
DEPTH == 20

\* ------------------------------------------------------------------- bounds
\* An instance advances its snake at most MaxMoves times before it is
\* restarted or replaced.
MaxMoves == 15
\* Math.random() is sampled at the points k / RandDenom, k in 0..RandDenom-1.
RandDenom == 4

VARIABLES
    game,            \* GAME: the live GameVariant (tagged record)
    restartVisible,  \* DOM: #restart is displayed
    scoreShown,      \* DOM: number shown in #score
    moves,           \* observer: snake advances of the live instance
    outcome,         \* observer: what the last update() of the instance did
    lastDir,         \* observer: dir used by the last Game2D::update that ran
    lastExport,      \* observer: exported function that ran last, if no event since
    painted          \* observer: what the last draw() put on the canvas

vars == <<game, restartVisible, scoreShown, moves, outcome, lastDir, lastExport, painted>>

None == "none"

\* value of lastDir while no Game2D::update has used a direction
NoDir == <<0, 0>>

Keys == {"ArrowUp", "ArrowDown", "ArrowLeft", "ArrowRight", "Other"}

\* ------------------------------------------------------------------- DOM
\* bug: the two display values of show_restart are swapped
ShowRestartSwapped(show) == ~show

\* show_restart(show): #restart is displayed (inline-block) iff show
ShowRestart(show) == show

\* ------------------------------------------------------------ i32 helpers
\* Rust's % on i32: remainder with the sign of the dividend.
Rem(a, b) == IF a >= 0 THEN a % b ELSE -((-a) % b)

\* (Math.random() * extent as f64) as i32 for Math.random() = k / RandDenom.
\* bug: the product is rounded up instead of truncated
RandCoordCeil(k, extent) == ((k + 1) * extent) \div RandDenom

RandCoord(k, extent) == (k * extent) \div RandDenom

RandDraws == 0 .. (RandDenom - 1)

\* the Math.random() calls one update() makes: one per axis when the new
\* head is on the food, none otherwise
Draws(eats, axes) ==
    IF eats THEN [1..axes -> RandDraws] ELSE {[i \in 1..axes |-> 0]}

\* ------------------------------------------------------- VecDeque helpers
\* bug: the scan stops before the last element (the tail)
ContainsButTail(s, c) == \E i \in 1..(Len(s) - 1) : s[i] = c

Contains(s, c) == \E i \in 1..Len(s) : s[i] = c

PushFront(s, c) == <<c>> \o s

\* bug: the tail is never removed
PopBackKeeps(s) == s

PopBack(s) == SubSeq(s, 1, Len(s) - 1)

Front(s) == s[1]

\* ------------------------------------------------------------------- Vec3
Vec3Add(a, b) == <<a[1] + b[1], a[2] + b[2], a[3] + b[3]>>

Vec3Wrap(a) == <<Rem(a[1] + WIDTH, WIDTH), Rem(a[2] + HEIGHT, HEIGHT), Rem(a[3] + DEPTH, DEPTH)>>

Vec3Neg(a) == <<-a[1], -a[2], -a[3]>>

\* ------------------------------------------------------------ Orientation
OrientationNew == [f |-> <<0, 0, 1>>, u |-> <<1, 0, 0>>, r |-> <<0, 1, 0>>]

\* bug: no temporary, self.f is read back after self.u was overwritten
PitchUpNoTemp(o) == [f |-> Vec3Neg(o.f), u |-> Vec3Neg(o.f), r |-> o.r]

PitchUp(o) == [f |-> o.u, u |-> Vec3Neg(o.f), r |-> o.r]

PitchDown(o) == [f |-> Vec3Neg(o.u), u |-> o.f, r |-> o.r]

\* bug: the new forward is self.r, not its negation
YawLeftNoNeg(o) == [f |-> o.r, u |-> o.u, r |-> o.f]

YawLeft(o) == [f |-> Vec3Neg(o.r), u |-> o.u, r |-> o.f]

YawRight(o) == [f |-> o.r, u |-> o.u, r |-> Vec3Neg(o.f)]

\* ----------------------------------------------------------------- Game2D
Game2DNew ==
    [variant |-> "TwoD",
     snake |-> << <<WIDTH \div 2, HEIGHT \div 2>> >>,
     dir |-> <<1, 0>>,
     food |-> <<5, 5>>,
     alive |-> TRUE,
     score |-> 0]

\* bug: the match guards are missing
ChangeDir2DNoGuard(dir, key) ==
    CASE key = "ArrowUp" -> <<0, -1>>
      [] key = "ArrowDown" -> <<0, 1>>
      [] key = "ArrowLeft" -> <<-1, 0>>
      [] key = "ArrowRight" -> <<1, 0>>
      [] OTHER -> dir

\* bug: an arrow key sets one component of dir and keeps the other
ChangeDir2DKeepsAxis(dir, key) ==
    CASE key = "ArrowUp" /\ dir[2] # 1 -> <<dir[1], -1>>
      [] key = "ArrowDown" /\ dir[2] # -1 -> <<dir[1], 1>>
      [] key = "ArrowLeft" /\ dir[1] # 1 -> <<-1, dir[2]>>
      [] key = "ArrowRight" /\ dir[1] # -1 -> <<1, dir[2]>>
      [] OTHER -> dir

ChangeDir2D(dir, key) ==
    CASE key = "ArrowUp" /\ dir[2] # 1 -> <<0, -1>>
      [] key = "ArrowDown" /\ dir[2] # -1 -> <<0, 1>>
      [] key = "ArrowLeft" /\ dir[1] # 1 -> <<-1, 0>>
      [] key = "ArrowRight" /\ dir[1] # -1 -> <<1, 0>>
      [] OTHER -> dir

\* bug: the extent is not added before the remainder is taken
NewHead2DNoBias(head, dir) ==
    <<Rem(head[1] + dir[1], WIDTH), Rem(head[2] + dir[2], HEIGHT)>>

NewHead2D(head, dir) ==
    <<Rem(head[1] + dir[1] + WIDTH, WIDTH), Rem(head[2] + dir[2] + HEIGHT, HEIGHT)>>

Eats2D(nh, food) == nh = food

\* bug: the score is not incremented when the food is eaten
Grow2DNoScore(g, nh, rnd) ==
    IF Eats2D(nh, g.food)
    THEN [g EXCEPT !.snake = PushFront(g.snake, nh),
                   !.food = <<RandCoord(rnd[1], WIDTH), RandCoord(rnd[2], HEIGHT)>>]
    ELSE [g EXCEPT !.snake = PopBack(PushFront(g.snake, nh))]

\* bug: a food drawn onto the new head is moved one cell along x
Grow2DAvoidsHead(g, nh, rnd) ==
    IF Eats2D(nh, g.food)
    THEN LET drawn == <<RandCoord(rnd[1], WIDTH), RandCoord(rnd[2], HEIGHT)>>
         IN [g EXCEPT !.snake = PushFront(g.snake, nh),
                      !.score = g.score + 1,
                      !.food = IF drawn = nh
                               THEN <<Rem(drawn[1] + 1, WIDTH), drawn[2]>>
                               ELSE drawn]
    ELSE [g EXCEPT !.snake = PopBack(PushFront(g.snake, nh))]

\* push the head, then either relocate the food or pop the tail
Grow2D(g, nh, rnd) ==
    IF Eats2D(nh, g.food)
    THEN [g EXCEPT !.snake = PushFront(g.snake, nh),
                   !.score = g.score + 1,
                   !.food = <<RandCoord(rnd[1], WIDTH), RandCoord(rnd[2], HEIGHT)>>]
    ELSE [g EXCEPT !.snake = PopBack(PushFront(g.snake, nh))]

\* ----------------------------------------------------------------- Game3D
Game3DNew ==
    [variant |-> "ThreeD",
     snake |-> << <<WIDTH \div 2, HEIGHT \div 2, DEPTH \div 2>> >>,
     orient |-> OrientationNew,
     food |-> <<5, 5, 5>>,
     alive |-> TRUE,
     score |-> 0]

ChangeDir3D(o, key) ==
    CASE key = "ArrowUp" -> PitchUp(o)
      [] key = "ArrowDown" -> PitchDown(o)
      [] key = "ArrowLeft" -> YawLeft(o)
      [] key = "ArrowRight" -> YawRight(o)
      [] OTHER -> o

NewHead3D(head, f) == Vec3Wrap(Vec3Add(head, f))

Eats3D(nh, food) == nh[1] = food[1] /\ nh[2] = food[2] /\ nh[3] = food[3]

\* relocate the food or pop the tail, then push the head (Grow3D below)
\* bug: the score is not incremented when the food is eaten
Grow3DNoScore(g, nh, rnd) ==
    IF Eats3D(nh, g.food)
    THEN [g EXCEPT !.snake = PushFront(g.snake, nh),
                   !.food = <<RandCoord(rnd[1], WIDTH), RandCoord(rnd[2], HEIGHT), RandCoord(rnd[3], DEPTH)>>]
    ELSE [g EXCEPT !.snake = PushFront(PopBack(g.snake), nh)]

Grow3D(g, nh, rnd) ==
    IF Eats3D(nh, g.food)
    THEN [g EXCEPT !.snake = PushFront(g.snake, nh),
                   !.score = g.score + 1,
                   !.food = <<RandCoord(rnd[1], WIDTH), RandCoord(rnd[2], HEIGHT), RandCoord(rnd[3], DEPTH)>>]
    ELSE [g EXCEPT !.snake = PushFront(PopBack(g.snake), nh)]

\* ------------------------------------------------------------ GameVariant
IsTwoD == game.variant = "TwoD"

IsThreeD == game.variant = "ThreeD"

\* bug: change_dir returns early on a finished game
ChangeDirGated(g, key) ==
    IF ~g.alive
    THEN g
    ELSE IF g.variant = "TwoD"
         THEN [g EXCEPT !.dir = ChangeDir2D(g.dir, key)]
         ELSE [g EXCEPT !.orient = ChangeDir3D(g.orient, key)]

\* GameVariant::change_dir
ChangeDir(g, key) ==
    IF g.variant = "TwoD"
    THEN [g EXCEPT !.dir = ChangeDir2D(g.dir, key)]
    ELSE [g EXCEPT !.orient = ChangeDir3D(g.orient, key)]

\* bug: update() does not return early on a finished game
DeadNever(g) == FALSE

\* the early return of update(): if !self.alive { return; }
Dead(g) == ~g.alive

\* the cell update() is about to enter
NewHead(g) ==
    IF g.variant = "TwoD"
    THEN NewHead2D(Front(g.snake), g.dir)
    ELSE NewHead3D(Front(g.snake), g.orient.f)

\* bug: update() does not test for self-collision
CollidesNever(g) == FALSE

\* the self-collision test: self.snake.contains(&new_head)
Collides(g) == Contains(g.snake, NewHead(g))

\* the food test of update()
Eats(g) ==
    IF g.variant = "TwoD" THEN Eats2D(NewHead(g), g.food) ELSE Eats3D(NewHead(g), g.food)

Axes(g) == IF g.variant = "TwoD" THEN 2 ELSE 3

\* ------------------------------------------------------------------- draw
\* Game2D::draw: the fill_rect calls after the background, in call order
Draw2D(g) ==
    [i \in 1..Len(g.snake) |-> <<g.snake[i], "green">>] \o << <<g.food, "red">> >>

\* Vec::sort_by_key(|(p, _)| p.2): stable, ascending in the third component
RECURSIVE InsertByKey(_, _)
InsertByKey(sorted, item) ==
    IF sorted = <<>>
    THEN <<item>>
    ELSE IF Head(sorted)[1][3] <= item[1][3]
         THEN <<Head(sorted)>> \o InsertByKey(Tail(sorted), item)
         ELSE <<item>> \o sorted

RECURSIVE SortByKey(_)
SortByKey(items) ==
    IF items = <<>>
    THEN <<>>
    ELSE InsertByKey(SortByKey(SubSeq(items, 1, Len(items) - 1)), items[Len(items)])

\* Game3D::draw: the draw_cube calls, in call order
Draw3D(g) ==
    SortByKey([i \in 1..Len(g.snake) |-> <<g.snake[i], "green">>] \o << <<g.food, "red">> >>)

\* GameVariant::draw
Draw(g) == IF g.variant = "TwoD" THEN Draw2D(g) ELSE Draw3D(g)

\* what the observer keeps of a canvas: how many cells were painted and
\* where the red one is
Canvas(calls) ==
    [cells |-> Len(calls),
     red |-> calls[CHOOSE i \in 1..Len(calls) : calls[i][2] = "red"][1]]

\* the canvas before the first draw()
Blank == [cells |-> 0, red |-> <<>>]

\* ------------------------------------------------------------------- Init
\* start(): GAME holds Game2D::new(ctx); new() calls set_score(0) and
\* show_restart(false).
Init ==
    /\ game = Game2DNew
    /\ restartVisible = ShowRestart(FALSE)
    /\ scoreShown = 0
    /\ moves = 0
    /\ outcome = None
    /\ lastDir = NoDir
    /\ lastExport = "start"
    /\ painted = Blank

\* ---------------------------------------------------------------- actions
\* keydown handler: g.change_dir(&key)
KeyDown(key) ==
    /\ game' = ChangeDir(game, key)
    /\ lastExport' = None
    /\ UNCHANGED <<restartVisible, scoreShown, moves, outcome, lastDir, painted>>

\* g.update() of the timer callback
Update(rnd) ==
    IF Dead(game)
    THEN /\ game' = game
         /\ outcome' = "idle"
         /\ UNCHANGED <<restartVisible, moves, lastDir>>
    ELSE /\ lastDir' = IF IsTwoD THEN game.dir ELSE lastDir
         /\ IF Collides(game)
            THEN /\ game' = [game EXCEPT !.alive = FALSE]
                 /\ restartVisible' = ShowRestart(TRUE)
                 /\ outcome' = "collided"
                 /\ UNCHANGED moves
            ELSE /\ moves < MaxMoves
                 /\ game' = IF IsTwoD
                            THEN Grow2D(game, NewHead(game), rnd)
                            ELSE Grow3D(game, NewHead(game), rnd)
                 /\ outcome' = IF game'.score = game.score THEN "moved" ELSE "ate"
                 /\ moves' = moves + 1
                 /\ UNCHANGED restartVisible

\* bug: the callback draws before it updates
TickDrawsFirst ==
    \E rnd \in Draws(~Dead(game) /\ ~Collides(game) /\ Eats(game), Axes(game)) :
        /\ Update(rnd)
        /\ scoreShown' = game'.score
        /\ painted' = Canvas(Draw(game))
        /\ lastExport' = None

\* timer callback: g.update(); g.draw().unwrap();  draw() ends in
\* set_score(self.score); the canvas itself is write-only output.
Tick ==
    \E rnd \in Draws(~Dead(game) /\ ~Collides(game) /\ Eats(game), Axes(game)) :
        /\ Update(rnd)
        /\ scoreShown' = game'.score
        /\ painted' = Canvas(Draw(game'))
        /\ lastExport' = None

\* bug: the arms of GameVariant::restart build the other variant
RestartSwapsVariant ==
    /\ game' = IF IsTwoD THEN Game3DNew ELSE Game2DNew
    /\ restartVisible' = ShowRestart(FALSE)
    /\ scoreShown' = 0
    /\ moves' = 0
    /\ outcome' = None
    /\ lastDir' = NoDir
    /\ lastExport' = "restart"
    /\ UNCHANGED painted

\* restart(): game.restart() rebuilds the same variant; show_restart(false)
Restart ==
    /\ game' = IF IsTwoD THEN Game2DNew ELSE Game3DNew
    /\ restartVisible' = ShowRestart(FALSE)
    /\ scoreShown' = 0
    /\ moves' = 0
    /\ outcome' = None
    /\ lastDir' = NoDir
    /\ lastExport' = "restart"
    /\ UNCHANGED painted

\* bug: the score of the old instance is carried into the new one
ToggleKeepsScore ==
    /\ game' = [(IF IsTwoD THEN Game3DNew ELSE Game2DNew) EXCEPT !.score = game.score]
    /\ restartVisible' = ShowRestart(FALSE)
    /\ scoreShown' = game.score
    /\ moves' = 0
    /\ outcome' = None
    /\ lastDir' = NoDir
    /\ lastExport' = "toggle"
    /\ UNCHANGED painted

\* toggle_mode(): replace the instance by a new one of the other variant
ToggleMode ==
    /\ game' = IF IsTwoD THEN Game3DNew ELSE Game2DNew
    /\ restartVisible' = ShowRestart(FALSE)
    /\ scoreShown' = 0
    /\ moves' = 0
    /\ outcome' = None
    /\ lastDir' = NoDir
    /\ lastExport' = "toggle"
    /\ UNCHANGED painted

Next ==
    \/ \E key \in Keys : KeyDown(key)
    \/ Tick
    \/ Restart
    \/ ToggleMode

Spec == Init /\ [][Next]_vars

\* ============================================================ properties
\* Vocabulary of the properties, independent of the operators above.
Dirs == {<<1, 0>>, <<-1, 0>>, <<0, 1>>, <<0, -1>>}

Neg2(d) == <<-d[1], -d[2]>>

Extents(g) == IF g.variant = "TwoD" THEN <<WIDTH, HEIGHT>> ELSE <<WIDTH, HEIGHT, DEPTH>>

StepVec(g) == IF g.variant = "TwoD" THEN g.dir ELSE g.orient.f

\* head + direction, modulo the extent on every axis (mathematical modulo)
Target(g) ==
    [i \in DOMAIN Extents(g) |-> (Front(g.snake)[i] + StepVec(g)[i]) % Extents(g)[i]]

Cells(q) == {q[i] : i \in 1..Len(q)}

LastCell(q) == q[Len(q)]

InBounds(g, c) == \A i \in DOMAIN Extents(g) : c[i] \in 0..(Extents(g)[i] - 1)

\* the direction an arrow key asks for in 2D
Requested(key) ==
    CASE key = "ArrowUp" -> <<0, -1>>
      [] key = "ArrowDown" -> <<0, 1>>
      [] key = "ArrowLeft" -> <<-1, 0>>
      [] key = "ArrowRight" -> <<1, 0>>
      [] OTHER -> NoDir

\* the step is the timer callback: the observers show that an update() ran
\* (the snake advanced, or the update collided or found the game over) and
\* the step is one Tick allows
TickStep == (moves' = moves + 1 \/ outcome' \in {"collided", "idle"}) /\ Tick

\* C1: in an Alive state of either variant, an update() whose new head is
\* not on the snake keeps the length when the new head is not the food
\* (head pushed, tail popped) and adds exactly 1 when it is the food (head
\* pushed, tail kept).
C1_LengthLaw ==
    [][(TickStep /\ game.alive /\ Target(game) \notin Cells(game.snake)) =>
        IF Target(game) = game.food
        THEN /\ Len(game'.snake) = Len(game.snake) + 1
             /\ game'.snake = <<Target(game)>> \o game.snake
        ELSE /\ Len(game'.snake) = Len(game.snake)
             /\ game'.snake = <<Target(game)>> \o SubSeq(game.snake, 1, Len(game.snake) - 1)]_vars

\* the 3D snake has just eaten after a run of non-eating moves
C1_Witness ==
    /\ IsThreeD
    /\ outcome = "ate"
    /\ Len(game.snake) = 2
    /\ moves > 1

\* C2: in an Alive state of either variant, an update() whose new head is
\* any cell of the snake (the tail included) ends the game, shows the
\* restart control and leaves snake, food and score as they were.
C2_CollisionFreezes ==
    [][(TickStep /\ game.alive /\ Target(game) \in Cells(game.snake)) =>
        /\ ~game'.alive
        /\ restartVisible'
        /\ game'.snake = game.snake
        /\ game'.food = game.food
        /\ game'.score = game.score]_vars

\* a 3D update has just run into the tail cell
C2_Witness ==
    /\ IsThreeD
    /\ outcome = "collided"
    /\ ~game.alive
    /\ restartVisible
    /\ Target(game) = LastCell(game.snake)

\* C3: in 2D, change_dir(key) applied to the current dir gives one of the
\* four unit directions, never the negation of the current dir, and leaves
\* dir unchanged when the key asks for the exact opposite.
C3_ReversalGuard ==
    IsTwoD =>
        \A key \in Keys :
            /\ ChangeDir2D(game.dir, key) \in Dirs
            /\ ChangeDir2D(game.dir, key) # Neg2(game.dir)
            /\ (Requested(key) = Neg2(game.dir) => ChangeDir2D(game.dir, key) = game.dir)

\* change_dir has turned the fresh 2D snake to the left (via up or down),
\* where ArrowRight asks for the opposite and is refused
C3_Witness ==
    /\ IsTwoD
    /\ moves = 0
    /\ game.dir = <<-1, 0>>
    /\ Requested("ArrowRight") = Neg2(game.dir)
    /\ ChangeDir2D(game.dir, "ArrowRight") = game.dir

\* C4: in 2D, the direction an update() uses is never the exact opposite of
\* the direction the previous update() of the same instance used.
C4_NoReversalBetweenTicks ==
    [][(TickStep /\ IsTwoD /\ game.alive /\ lastDir # NoDir) => game.dir # Neg2(lastDir)]_vars

\* C5: in 3D, each of f, u, r has exactly one non-zero component, equal to
\* +1 or -1, and no two of them lie on the same axis.
Axis(v) == CHOOSE i \in 1..3 : v[i] # 0

SignedBasis(v) ==
    /\ \A i \in 1..3 : v[i] \in {-1, 0, 1}
    /\ Cardinality({i \in 1..3 : v[i] # 0}) = 1

C5_Orthonormal ==
    IsThreeD =>
        /\ SignedBasis(game.orient.f)
        /\ SignedBasis(game.orient.u)
        /\ SignedBasis(game.orient.r)
        /\ Cardinality({Axis(game.orient.f), Axis(game.orient.u), Axis(game.orient.r)}) = 3

\* the frame after pitch_up then yaw_left
C5_Witness ==
    /\ IsThreeD
    /\ game.orient = [f |-> <<0, -1, 0>>, u |-> <<0, 0, -1>>, r |-> <<1, 0, 0>>]

\* C6: on a non-colliding update() the new head is (old head + direction)
\* modulo the extent on every axis: extent-1 moving +1 gives 0, 0 moving -1
\* gives extent-1, the other axes unchanged.
C6_ToroidalStep ==
    [][(TickStep /\ game.alive /\ Target(game) \notin Cells(game.snake)) =>
        /\ Front(game'.snake) = Target(game)
        /\ \A i \in DOMAIN Extents(game) :
            LET old == Front(game.snake)[i]
                new == Front(game'.snake)[i]
                d == StepVec(game)[i]
            IN /\ (old = Extents(game)[i] - 1 /\ d = 1) => new = 0
               /\ (old = 0 /\ d = -1) => new = Extents(game)[i] - 1
               /\ d = 0 => new = old]_vars

\* the 2D head went right from (10,10) for ten moves: the last one left
\* (19,10) with dir (1,0) and arrived at (0,10)
C6_Witness ==
    /\ IsTwoD
    /\ moves = 10
    /\ outcome = "moved"
    /\ lastDir = <<1, 0>>
    /\ Front(game.snake) = <<0, 10>>

\* C7: every component of every snake cell and of the food lies in
\* [0, extent) for its axis.
C7_InBounds ==
    /\ \A i \in 1..Len(game.snake) : InBounds(game, game.snake[i])
    /\ InBounds(game, game.food)

\* the 3D food was relocated to the largest sampled cell and the 3D head
\* sits on the cell it ate
C7_Witness ==
    /\ IsThreeD
    /\ outcome = "ate"
    /\ game.food = [i \in 1..3 |-> RandCoord(RandDenom - 1, Extents(game)[i])]
    /\ game.food # Game3DNew.food

\* C8: the snake holds no coordinate twice and is never empty.
C8_NoDuplicates ==
    /\ Len(game.snake) >= 1
    /\ \A i, j \in 1..Len(game.snake) : i # j => game.snake[i] # game.snake[j]

\* a game that ended by self-collision with a grown snake
C8_Witness ==
    /\ outcome = "collided"
    /\ ~game.alive
    /\ Len(game.snake) >= 2

\* C9 as stated: after an eating update() the food is not on the new head.
C9_FoodLeavesHead ==
    outcome = "ate" => game.food # Front(game.snake)

\* C9 as amended: an eating update() pushes the new head without removing
\* the tail, adds 1 to the score and redraws the food at an in-bounds cell;
\* the new cell is not required to differ from the one just eaten.
C9_EatRelocates ==
    [][(TickStep /\ game.alive /\ Target(game) \notin Cells(game.snake) /\ Target(game) = game.food) =>
        /\ game'.snake = <<Target(game)>> \o game.snake
        /\ game'.score = game.score + 1
        /\ InBounds(game, game'.food)
        /\ outcome' = "ate"]_vars

\* the food was redrawn onto the very cell that was just eaten
C9_Witness ==
    /\ outcome = "ate"
    /\ game.food = Front(game.snake)
    /\ game.score >= 1

\* C10: once GameOver, an update() changes nothing of the game, and only
\* restart() or toggle_mode() makes the game Alive again.
C10_GameOverTerminal ==
    [][~game.alive =>
        /\ TickStep => (game' = game /\ restartVisible' = restartVisible)
        /\ game'.alive => (Restart \/ ToggleMode)]_vars

\* an update() has run on a finished game
C10_Witness ==
    /\ ~game.alive
    /\ outcome = "idle"
    /\ restartVisible

\* C11: restart() keeps the variant and leaves it in its initial state:
\* Alive, score 0, one snake cell at the grid centre, direction (1,0) or
\* the frame of Orientation::new(), food at (5,5) or (5,5,5).
C11_RestartResets ==
    [][lastExport' = "restart" =>
        /\ game'.variant = game.variant
        /\ game'.alive
        /\ game'.score = 0
        /\ IF game'.variant = "TwoD"
           THEN /\ game'.snake = << <<10, 10>> >>
                /\ game'.dir = <<1, 0>>
                /\ game'.food = <<5, 5>>
           ELSE /\ game'.snake = << <<10, 10, 10>> >>
                /\ game'.orient = [f |-> <<0, 0, 1>>, u |-> <<1, 0, 0>>, r |-> <<0, 1, 0>>]
                /\ game'.food = <<5, 5, 5>>]_vars

\* restart() has just rebuilt a 3D game whose last picture showed a snake
\* of two cells and the food
C11_Witness ==
    /\ lastExport = "restart"
    /\ IsThreeD
    /\ painted.cells = 3
    /\ Len(game.snake) = 1

\* C12: toggle_mode() replaces the instance by a fresh one of the other
\* variant (Alive, score 0, one cell at the centre, start direction and
\* food) and carries nothing over, so two toggles give the original variant
\* in its initial state.
C12_ToggleReplaces ==
    [][lastExport' = "toggle" =>
        /\ game'.variant # game.variant
        /\ game'.variant \in {"TwoD", "ThreeD"}
        /\ ~restartVisible'
        /\ scoreShown' = 0
        /\ IF game'.variant = "TwoD"
           THEN game' = [variant |-> "TwoD", snake |-> << <<10, 10>> >>, dir |-> <<1, 0>>,
                         food |-> <<5, 5>>, alive |-> TRUE, score |-> 0]
           ELSE game' = [variant |-> "ThreeD", snake |-> << <<10, 10, 10>> >>,
                         orient |-> [f |-> <<0, 0, 1>>, u |-> <<1, 0, 0>>, r |-> <<0, 1, 0>>],
                         food |-> <<5, 5, 5>>, alive |-> TRUE, score |-> 0]]_vars

\* toggle_mode() has just replaced a 3D game that had eaten (its last
\* picture shows three cells) by a 2D game: at least the second toggle
C12_Witness ==
    /\ lastExport = "toggle"
    /\ IsTwoD
    /\ painted.cells = 3
    /\ Len(painted.red) = 3

\* C13: the restart control is visible iff the live game is GameOver.
C13_RestartIffGameOver ==
    restartVisible <=> ~game.alive

\* a 2D update has just collided and shown the control
C13_Witness ==
    /\ IsTwoD
    /\ outcome = "collided"
    /\ ~game.alive
    /\ restartVisible
    /\ lastExport = None

\* C14: a timer tick is update() followed by draw() on the live instance
\* with nothing in between: the update moves by the direction the earlier
\* key events left, the draw shows the state that update produced, and the
\* tick itself changes neither the variant nor the direction.
C14_TickIsUpdateThenDraw ==
    [][TickStep =>
        /\ (game.alive /\ Target(game) \notin Cells(game.snake)) => Front(game'.snake) = Target(game)
        /\ painted' = [cells |-> Len(game'.snake) + 1, red |-> game'.food]
        /\ scoreShown' = game'.score
        /\ game'.variant = game.variant
        /\ StepVec(game') = StepVec(game)
        /\ lastExport' = None]_vars

\* a tick has eaten with a direction other than the start direction, set by
\* key events before it, and the picture shows the grown snake and the new
\* food
C14_Witness ==
    /\ IsTwoD
    /\ outcome = "ate"
    /\ lastDir # <<1, 0>>
    /\ lastDir = game.dir
    /\ painted = [cells |-> Len(game.snake) + 1, red |-> game.food]

\* C15: Game3D::draw issues one draw_cube per snake cell and one for the
\* food, ordered by depth descending: no object with a larger z is drawn
\* after an object with a smaller z.
C15_FarthestFirst ==
    (IsThreeD /\ outcome # None) =>
        LET calls == Draw3D(game)
        IN /\ Len(calls) = Len(game.snake) + 1
           /\ \A c \in Cells(game.snake) :
                Cardinality({i \in 1..Len(calls) : calls[i] = <<c, "green">>}) = 1
           /\ Cardinality({i \in 1..Len(calls) : calls[i] = <<game.food, "red">>}) = 1
           /\ \A i, j \in 1..Len(calls) : i < j => calls[i][1][3] >= calls[j][1][3]

\* C16: in 3D the frame is right-handed: forward x up = right.
Cross(a, b) ==
    <<a[2] * b[3] - a[3] * b[2], a[3] * b[1] - a[1] * b[3], a[1] * b[2] - a[2] * b[1]>>

C16_RightHanded ==
    IsThreeD => Cross(game.orient.f, game.orient.u) = game.orient.r

\* the frame after one yaw_left
C16_Witness ==
    /\ IsThreeD
    /\ game.orient = [f |-> <<0, -1, 0>>, u |-> <<1, 0, 0>>, r |-> <<0, 0, 1>>]

\* C17: score = snake length - 1 in every state; a step that changes the
\* score is either an update() that adds 1 to score and length alike, or a
\* restart()/toggle_mode() that sets it to 0.
C17_ScoreIsGrowth ==
    [][/\ game'.score = Len(game'.snake) - 1
       /\ game'.score # game.score =>
            \/ /\ TickStep
               /\ game'.score = game.score + 1
               /\ Len(game'.snake) = Len(game.snake) + 1
            \/ /\ lastExport' \in {"restart", "toggle"}
               /\ game'.score = 0]_vars

\* the 2D snake has eaten twice
C17_Witness ==
    /\ IsTwoD
    /\ outcome = "ate"
    /\ game.score = 2
    /\ Len(game.snake) = 3

\* the cells a food relocation can draw, axis by axis
Samples(extent) == {(k * extent) \div RandDenom : k \in 0..(RandDenom - 1)}

SampledCells(g) ==
    {c \in [DOMAIN Extents(g) -> Samples(WIDTH) \cup Samples(HEIGHT) \cup Samples(DEPTH)] :
        \A i \in DOMAIN Extents(g) : c[i] \in Samples(Extents(g)[i])}

\* C18: food relocation is not validated against the snake: whenever an
\* update() is about to eat, every cell of the grown snake that the
\* generator can draw, the cell of the head that eats included, is a
\* possible new food cell, so states with the food on the snake are
\* reachable and "food is never on the snake" is not an invariant.
C18_RelocationUnchecked ==
    (game.alive /\ moves < MaxMoves /\ Target(game) = game.food
                /\ Target(game) \notin Cells(game.snake)) =>
        \A c \in SampledCells(game) \cap (Cells(game.snake) \cup {Target(game)}) :
            ENABLED (Tick /\ game'.food = c)

\* a living 3D snake with the food on one of its cells
C18_Witness ==
    /\ IsThreeD
    /\ game.alive
    /\ game.score >= 1
    /\ game.food \in Cells(game.snake)

\* C19 as stated: at least one variant ignores change_dir while GameOver.
\* change_dir reads only dir or orient and the key, so the claim implies
\* that in a GameOver state either no key changes the live instance, or no
\* key changes a finished instance of the other variant.
OtherFinished(g) ==
    [(IF g.variant = "TwoD" THEN Game3DNew ELSE Game2DNew) EXCEPT !.alive = FALSE]

C19_SomeVariantIgnores ==
    ~game.alive =>
        \/ \A key \in Keys : ChangeDir(game, key) = game
        \/ \A key \in Keys : ChangeDir(OtherFinished(game), key) = OtherFinished(game)

\* C19 as amended: neither variant ignores change_dir while GameOver; in a
\* GameOver state an arrow key still sets the 2D dir it asks for (unless it
\* asks for the current dir or its opposite) and still rotates the 3D
\* frame, while snake, food, score and the GameOver flag stay.
ArrowKeys == {"ArrowUp", "ArrowDown", "ArrowLeft", "ArrowRight"}

C19_KeysWorkWhenGameOver ==
    ~game.alive =>
        \A key \in ArrowKeys :
            IF IsTwoD
            THEN Requested(key) \notin {game.dir, Neg2(game.dir)} =>
                    ENABLED (KeyDown(key) /\ game' = [game EXCEPT !.dir = Requested(key)])
            ELSE ENABLED (/\ KeyDown(key)
                          /\ game'.orient.f # game.orient.f
                          /\ game' = [game EXCEPT !.orient = game'.orient])

\* a finished 3D game whose frame was turned away from the cell it ran into
C19_Witness ==
    /\ IsThreeD
    /\ ~game.alive
    /\ outcome = "collided"
    /\ Target(game) \notin Cells(game.snake)

\* C20: consecutive snake cells differ by exactly 1 modulo the extent on
\* exactly one axis and are equal on the others.
Adjacent(g, a, b) ==
    \E i \in DOMAIN Extents(g) :
        /\ (a[i] - b[i]) % Extents(g)[i] \in {1, Extents(g)[i] - 1}
        /\ \A j \in DOMAIN Extents(g) : j # i => a[j] = b[j]

C20_Contiguous ==
    \A i \in 1..(Len(game.snake) - 1) : Adjacent(game, game.snake[i], game.snake[i + 1])

\* a 2D snake of three cells with a bend
C20_Witness ==
    /\ IsTwoD
    /\ Len(game.snake) = 3
    /\ game.snake[1][1] # game.snake[3][1]
    /\ game.snake[1][2] # game.snake[3][2]

====
